---- MODULE Spec2Model ----
(***************************************************************************)
(* Plant Lore interface script (app.js): loading of analysis.json, the     *)
(* three view populators, the Venn diagram renderer and the navigation     *)
(* between views, as a state machine over the page's DOM.                  *)
(*                                                                         *)
(* Numbers of the document that are fractions in the source (lexical       *)
(* diversity, sentiment scores, overlap percentage) are carried in         *)
(* thousandths (0.08 is 80); text is a sequence of one-character strings.  *)
(* A JSON object is a record with a "keys" field naming the properties it  *)
(* really has: a property outside "keys" reads as undefined.               *)
(***************************************************************************)
EXTENDS Integers, Sequences, FiniteSets, TLC

VARIABLES
    pc,            \* position of the DOMContentLoaded handler
    response,      \* body of the settled fetch, as response.json() will see it
    analysisData,  \* the module-level variable of line 4
    textContent,   \* textContent of every text slot
    styleWidth,    \* style.width of every sentiment bar
    children,      \* child elements of the word-list containers and of the chart
    writes,        \* number of statements that have written each slot
    listeners,     \* TRUE once the click listeners are attached
    active,        \* the .nav-btn elements carrying the class "active"
    shown,         \* the .text-view elements that are displayed
    viewName,      \* viewName of the last click listener that ran
    lastClick,     \* the last click of the user: the button and the handler's position then
    fetches,       \* number of calls of fetch
    errorLogs,     \* number of calls of console.error
    alerts,        \* number of calls of alert
    dataWrites,    \* number of assignments to analysisData
    loadResult,    \* how the load ended
    renders,       \* number of calls of createVennDiagram
    firstRender    \* content of the chart container after the first call

vars == <<pc, response, analysisData, textContent, styleWidth, children, writes,
          listeners, active, shown, viewName, lastClick, fetches, errorLogs,
          alerts, dataWrites, loadResult, renders, firstRender>>

(***************************************************************************)
(* Bounds of the model.                                                    *)
(***************************************************************************)
\* longest word list of a document: one more than the populators keep
MaxListLen == 31
\* largest number of calls of createVennDiagram in the renderer's specification
MaxRenders == 3

(***************************************************************************)
(* Constants of the program.                                               *)
(***************************************************************************)
TopN == 30
Width == 600
Height == 400
Radius == 120
CircleSpacing == 80
LabelOffset == 70
LabelRise == 20
SharedLabelDrop == 30

None == "none"
Views == {"folkard", "shakespeare", "comparison"}
Prefixes == {"folkard", "shakespeare"}

(***************************************************************************)
(* The named elements of the page the script writes.                       *)
(***************************************************************************)
Slot(prefix, name) == prefix \o "-" \o name

TextNames == {"total-words", "unique-words", "lexical-diversity",
              "sent-pos-val", "sent-neg-val", "sent-neu-val", "sent-compound"}
BarNames == {"sent-pos", "sent-neg", "sent-neu"}

TextSlots == {Slot(p, n) : p \in Prefixes, n \in TextNames}
                 \cup {"overlap-percent", "overlap-detail"}
BarSlots == {Slot(p, n) : p \in Prefixes, n \in BarNames}
WordContainers == {"folkard-top-words", "shakespeare-top-words", "shared-words"}
ChartContainer == "overlap-chart"
Containers == WordContainers \cup {ChartContainer}
AllSlots == TextSlots \cup BarSlots \cup Containers

(***************************************************************************)
(* Number formatting.                                                      *)
(***************************************************************************)
Abs(n) == IF n < 0 THEN -n ELSE n

DigitChar(d) == <<"0", "1", "2", "3", "4", "5", "6", "7", "8", "9">>[d + 1]

RECURSIVE Digits(_)
\* decimal digits of a natural number
Digits(n) == IF n < 10 THEN <<DigitChar(n)>>
             ELSE Digits(n \div 10) \o <<DigitChar(n % 10)>>

RECURSIVE Pow10(_)
Pow10(k) == IF k = 0 THEN 1 ELSE 10 * Pow10(k - 1)

RECURSIVE Padded(_, _)
\* the last k decimal digits of n, zeros included
Padded(n, k) == IF k = 0 THEN <<>>
                ELSE Padded(n \div 10, k - 1) \o <<DigitChar(n % 10)>>

RECURSIVE Grouped(_)
Grouped(n) == IF n < 1000 THEN Digits(n)
              ELSE Grouped(n \div 1000) \o <<",">> \o Padded(n % 1000, 3)

\* Number.prototype.toLocaleString of an integer (en-US grouping)
ToLocaleString(n) == IF n < 0 THEN <<"-">> \o Grouped(-n) ELSE Grouped(n)

\* String(n) of an integer, as a template literal renders it
IntToString(n) == IF n < 0 THEN <<"-">> \o Digits(-n) ELSE Digits(n)

NaN == <<"N", "a", "N">>

\* Number.prototype.toFixed(d), 1 <= d <= 3, of m thousandths
ToFixed(m, d) ==
    LET q == Pow10(3 - d)
        r == (Abs(m) + (q \div 2)) \div q
    IN  (IF m < 0 THEN <<"-">> ELSE <<>>)
            \o Digits(r \div Pow10(d)) \o <<".">> \o Padded(r % Pow10(d), d)

RECURSIVE Trimmed(_)
\* a fraction's digits without its trailing zeros
Trimmed(s) == IF s = <<>> THEN <<>>
              ELSE IF s[Len(s)] = "0" THEN Trimmed(SubSeq(s, 1, Len(s) - 1))
              ELSE s

\* String(x) of the number of m thousandths
NumberToString(m) ==
    LET f == Trimmed(Padded(Abs(m) % 1000, 3))
    IN  (IF m < 0 THEN <<"-">> ELSE <<>>)
            \o Digits(Abs(m) \div 1000)
            \o (IF f = <<>> THEN <<>> ELSE <<".">> \o f)

Percent == <<"%">>

(***************************************************************************)
(* The documents analysis.json may hold.                                   *)
(***************************************************************************)
Has(o, k) == o.defined /\ k \in o.keys
Drop(o, k) == [o EXCEPT !.keys = @ \ {k}]

Vocabulary == <<"rose", "lily", "oak", "yew", "rue">>

\* n entries of top_words, in an order that is not the order of their counts
WordList(n, salt) ==
    [i \in 1..n |-> [word |-> Vocabulary[((i + salt) % Len(Vocabulary)) + 1],
                     count |-> ((i + salt) * 7) % 37]]

\* n entries of top_shared_words
SharedList(n, salt) ==
    [i \in 1..n |-> [word |-> Vocabulary[((i + salt) % Len(Vocabulary)) + 1],
                     combined_count |-> ((i + salt) * 11) % 41]]

SentKeys == {"positive", "negative", "neutral", "compound"}
TextKeys == {"total_words", "unique_words", "lexical_diversity", "sentiment",
             "top_words"}
ComparisonKeys == {"overlap_percentage", "total_shared_words", "unique_to_folkard",
                   "unique_to_shakespeare", "top_shared_words"}
DocKeys == {"texts", "comparison"}

Sentiment(pos, neg, neu, comp) ==
    [defined |-> TRUE, keys |-> SentKeys, positive |-> pos, negative |-> neg,
     neutral |-> neu, compound |-> comp]

TextStats(total, unique, diversity, sent, words) ==
    [defined |-> TRUE, keys |-> TextKeys, total_words |-> total,
     unique_words |-> unique, lexical_diversity |-> diversity,
     sentiment |-> sent, top_words |-> words]

ComparisonStats(overlap, sharedCount, onlyFolkard, onlyShakespeare, words) ==
    [defined |-> TRUE, keys |-> ComparisonKeys, overlap_percentage |-> overlap,
     total_shared_words |-> sharedCount, unique_to_folkard |-> onlyFolkard,
     unique_to_shakespeare |-> onlyShakespeare, top_shared_words |-> words]

\* what reading a missing property or element gives
UndefinedSentiment == [Sentiment(0, 0, 0, 0) EXCEPT !.defined = FALSE, !.keys = {}]
UndefinedText ==
    [TextStats(0, 0, 0, UndefinedSentiment, <<>>) EXCEPT !.defined = FALSE, !.keys = {}]
UndefinedComparison ==
    [ComparisonStats(0, 0, 0, 0, <<>>) EXCEPT !.defined = FALSE, !.keys = {}]

Document(texts, comparison) ==
    [defined |-> TRUE, keys |-> DocKeys, texts |-> texts, comparison |-> comparison]

\* the value null: the initial analysisData, and the JSON text "null"
Null == [Document(<<>>, UndefinedComparison) EXCEPT !.defined = FALSE, !.keys = {}]

\* lengths of the word lists: empty, short, exactly TopN, longer than TopN
ListLens == {0, 2, TopN, MaxListLen}

FolkardStats(n) ==
    TextStats(150000, 12000, 80, Sentiment(200, 100, 700, 150), WordList(n, 0))
ShakespeareStats(n) ==
    TextStats(999, 1000, 1234, Sentiment(0, 1000, 5, -500), WordList(n, 3))
Comparison(n) == ComparisonStats(33330, 2000, 5000, 3000, SharedList(n, 1))

WellFormedDocs ==
    {Document(<<FolkardStats(a), ShakespeareStats(b)>>, Comparison(c)) :
        a \in ListLens, b \in ListLens, c \in ListLens}

BaseDoc == Document(<<FolkardStats(2), ShakespeareStats(2)>>, Comparison(2))

\* parseable JSON that does not have the AnalysisDocument structure
MalformedDocs ==
    { Null,
      Drop(BaseDoc, "texts"),
      Drop(BaseDoc, "comparison"),
      [BaseDoc EXCEPT !.texts = <<>>],
      [BaseDoc EXCEPT !.texts = <<FolkardStats(2)>>],
      [BaseDoc EXCEPT !.texts[1] = Drop(@, "top_words")],
      [BaseDoc EXCEPT !.texts[2] = Drop(@, "top_words")],
      [BaseDoc EXCEPT !.texts[1] = Drop(@, "sentiment")],
      [BaseDoc EXCEPT !.texts[1] = Drop(@, "lexical_diversity")],
      [BaseDoc EXCEPT !.texts[2].sentiment = Drop(@, "compound")],
      [BaseDoc EXCEPT !.texts[2] = Drop(@, "unique_words")],
      [BaseDoc EXCEPT !.comparison = Drop(@, "unique_to_shakespeare")],
      [BaseDoc EXCEPT !.comparison = Drop(@, "top_shared_words")] }

Docs == WellFormedDocs \cup MalformedDocs

WellFormed(doc) ==
    /\ Has(doc, "texts") /\ Has(doc, "comparison")
    /\ Len(doc.texts) = 2
    /\ \A i \in 1..2 :
          /\ doc.texts[i].defined /\ doc.texts[i].keys = TextKeys
          /\ doc.texts[i].sentiment.defined
          /\ doc.texts[i].sentiment.keys = SentKeys
    /\ doc.comparison.defined /\ doc.comparison.keys = ComparisonKeys

\* a response body response.json() cannot parse (the page of a 404, say)
Unparseable == [Null EXCEPT !.keys = {"<html>"}]
Bodies == Docs \cup {Unparseable}

(***************************************************************************)
(* createVennDiagram.                                                      *)
(***************************************************************************)
Element(tag, x, y, r, class, text) ==
    [tag |-> tag, x |-> x, y |-> y, r |-> r, class |-> class, text |-> text]

\* the left circle placed on the right of the middle
FolkardXMirrored == Width \div 2 + CircleSpacing

FolkardX == Width \div 2 - CircleSpacing
FolkardY == Height \div 2
ShakespeareX == Width \div 2 + CircleSpacing
ShakespeareY == Height \div 2

\* the svg element and what lines 172-231 append to it, in order
VennSvg(comparison) ==
    [tag |-> "svg", width |-> Width, height |-> Height,
     elements |-> <<
        Element("circle", FolkardX, FolkardY, Radius, "venn-circle", <<>>),
        Element("circle", ShakespeareX, ShakespeareY, Radius, "venn-circle", <<>>),
        Element("text", FolkardX - LabelOffset, FolkardY - Radius - LabelRise,
                0, "venn-label", <<"Folkard">>),
        Element("text", ShakespeareX + LabelOffset, ShakespeareY - Radius - LabelRise,
                0, "venn-label", <<"Shakespeare">>),
        Element("text", FolkardX - LabelOffset, FolkardY, 0, "venn-count",
                ToLocaleString(comparison.unique_to_folkard)),
        Element("text", ShakespeareX + LabelOffset, ShakespeareY, 0, "venn-count",
                ToLocaleString(comparison.unique_to_shakespeare)),
        Element("text", Width \div 2, Height \div 2, 0, "venn-count",
                ToLocaleString(comparison.total_shared_words)),
        Element("text", Width \div 2, Height \div 2 + SharedLabelDrop, 0, "venn-label",
                <<"Shared">>) >>]

\* the renderer without line 149: the svg is added to what the container holds
CreateVennDiagramNoClear(content, comparison) == Append(content, VennSvg(comparison))

\* content of #overlap-chart after createVennDiagram(comparison), given its
\* content before: innerHTML = '' and then the svg appended
CreateVennDiagram(content, comparison) == Append(<<>>, VennSvg(comparison))

(***************************************************************************)
(* The view populators, as the statements they execute in order. A         *)
(* statement either throws a TypeError (reading a property of undefined,   *)
(* or calling a method of it) or writes one slot.                          *)
(***************************************************************************)
Min(a, b) == IF a < b THEN a ELSE b

\* slice that also drops the last entry it should keep
SliceOneShort(list, from, to) == SubSeq(list, from + 1, Min(to - 1, Len(list)))

\* Array.prototype.slice(from, to)
Slice(list, from, to) == SubSeq(list, from + 1, Min(to, Len(list)))

\* the div.word-item built from an entry of top_words
WordItem(item) ==
    [className |-> "word-item", word |-> item.word, count |-> IntToString(item.count)]

\* the div.word-item built from an entry of top_shared_words
SharedItem(item) ==
    [className |-> "word-item", word |-> item.word,
     count |-> IntToString(item.combined_count)]

TopWordItems(list) ==
    LET top == Slice(list, 0, TopN) IN [i \in 1..Len(top) |-> WordItem(top[i])]

TopSharedItems(list) ==
    LET top == Slice(list, 0, TopN) IN [i \in 1..Len(top) |-> SharedItem(top[i])]

Statement(throws, kind, slot, value) ==
    [throws |-> throws, kind |-> kind, slot |-> slot, value |-> value]

\* (o[k] * 100).toFixed(d) + '%', NaN when o has no k
PercentLabel(o, k, d) ==
    (IF Has(o, k) THEN ToFixed(o[k] * 100, d) ELSE NaN) \o Percent

\* (o[k] * 100) + '%'
PercentWidth(o, k) ==
    (IF Has(o, k) THEN NumberToString(o[k] * 100) ELSE NaN) \o Percent

\* texts[i] of the document, zero-based as in the source
TextAt(doc, i) ==
    IF Has(doc, "texts") /\ i + 1 <= Len(doc.texts) THEN doc.texts[i + 1]
    ELSE UndefinedText

\* lines 47-77 and 82-112: the statements of a corpus view, for texts[i]
TextViewStatements(prefix, doc, i) ==
    LET d == TextAt(doc, i)
        sent == IF Has(d, "sentiment") THEN d.sentiment ELSE UndefinedSentiment
    IN <<
        Statement(~Has(doc, "texts"), "read", None, <<>>),
        Statement(~Has(d, "total_words"), "text", Slot(prefix, "total-words"),
                  ToLocaleString(d.total_words)),
        Statement(~Has(d, "unique_words"), "text", Slot(prefix, "unique-words"),
                  ToLocaleString(d.unique_words)),
        Statement(~d.defined, "text", Slot(prefix, "lexical-diversity"),
                  PercentLabel(d, "lexical_diversity", 2)),
        Statement(~sent.defined, "width", Slot(prefix, "sent-pos"),
                  PercentWidth(sent, "positive")),
        Statement(~sent.defined, "text", Slot(prefix, "sent-pos-val"),
                  PercentLabel(sent, "positive", 1)),
        Statement(~sent.defined, "width", Slot(prefix, "sent-neg"),
                  PercentWidth(sent, "negative")),
        Statement(~sent.defined, "text", Slot(prefix, "sent-neg-val"),
                  PercentLabel(sent, "negative", 1)),
        Statement(~sent.defined, "width", Slot(prefix, "sent-neu"),
                  PercentWidth(sent, "neutral")),
        Statement(~sent.defined, "text", Slot(prefix, "sent-neu-val"),
                  PercentLabel(sent, "neutral", 1)),
        Statement(~Has(sent, "compound"), "text", Slot(prefix, "sent-compound"),
                  ToFixed(sent.compound, 3)),
        Statement(~Has(d, "top_words"), "append", Slot(prefix, "top-words"),
                  TopWordItems(d.top_words)) >>

FolkardStatements(doc) == TextViewStatements("folkard", doc, 0)

\* the second view writing the first view's slots
ShakespeareStatementsIntoFolkard(doc) == TextViewStatements("folkard", doc, 1)

ShakespeareStatements(doc) == TextViewStatements("shakespeare", doc, 1)

\* the summary line of lines 121-124; its connective text is kept in whole
\* pieces, the bullet written as its code point
OverlapDetail(c) ==
    ToLocaleString(c.total_shared_words) \o <<" shared words U+2022 ">>
        \o ToLocaleString(c.unique_to_folkard) \o <<" unique to Folkard U+2022 ">>
        \o ToLocaleString(c.unique_to_shakespeare) \o <<" unique to Shakespeare">>

\* lines 117-139: the statements of the comparison view
ComparisonStatements(doc) ==
    LET c == IF Has(doc, "comparison") THEN doc.comparison ELSE UndefinedComparison
    IN <<
        Statement(~doc.defined, "read", None, <<>>),
        Statement(~Has(c, "overlap_percentage"), "text", "overlap-percent",
                  ToFixed(c.overlap_percentage, 2) \o Percent),
        Statement(~(Has(c, "total_shared_words") /\ Has(c, "unique_to_folkard")
                        /\ Has(c, "unique_to_shakespeare")),
                  "text", "overlap-detail", OverlapDetail(c)),
        Statement(FALSE, "chart", ChartContainer, c),
        Statement(~Has(c, "top_shared_words"), "append", "shared-words",
                  TopSharedItems(c.top_shared_words)) >>

\* the page as a run of statements finds and leaves it
Page ==
    [text |-> textContent, width |-> styleWidth, children |-> children,
     writes |-> writes, renders |-> renders, firstRender |-> firstRender,
     threw |-> FALSE]

Rendered(page, content) ==
    [page EXCEPT !.children[ChartContainer] = content,
                 !.renders = @ + 1,
                 !.firstRender = IF page.renders = 0 THEN content ELSE @]

Execute(page, s) ==
    LET counted == [page EXCEPT !.writes[s.slot] = @ + 1]
    IN CASE s.kind = "read" -> page
         [] s.kind = "text" -> [counted EXCEPT !.text[s.slot] = s.value]
         [] s.kind = "width" -> [counted EXCEPT !.width[s.slot] = s.value]
         [] s.kind = "append" -> [counted EXCEPT !.children[s.slot] = @ \o s.value]
         [] s.kind = "chart" ->
                Rendered(counted, CreateVennDiagram(page.children[s.slot], s.value))

RECURSIVE Run(_, _)
\* the statements in order, up to the first that throws
Run(page, statements) ==
    IF Len(statements) = 0 THEN page
    ELSE IF Head(statements).throws THEN [page EXCEPT !.threw = TRUE]
    ELSE Run(Execute(page, Head(statements)), Tail(statements))

(***************************************************************************)
(* The page before the script runs.                                        *)
(***************************************************************************)
\* the markup shows one view by default, its selector active
DefaultLayout(v) == active = {v} /\ shown = {v}

Init ==
    /\ pc = "start"
    /\ response = Null
    /\ analysisData = Null
    /\ textContent = [s \in TextSlots |-> <<>>]
    /\ styleWidth = [s \in BarSlots |-> <<>>]
    /\ children = [c \in Containers |-> <<>>]
    /\ writes = [s \in AllSlots |-> 0]
    /\ listeners = FALSE
    /\ \E v \in Views : DefaultLayout(v)
    /\ viewName = None
    /\ lastClick = [view |-> None, at |-> "start"]
    /\ fetches = 0 /\ errorLogs = 0 /\ alerts = 0 /\ dataWrites = 0
    /\ loadResult = "pending"
    /\ renders = 0
    /\ firstRender = <<>>

(***************************************************************************)
(* The DOMContentLoaded handler.                                           *)
(***************************************************************************)
dom == <<textContent, styleWidth, children, writes, renders, firstRender>>
nav == <<listeners, active, shown, viewName, lastClick>>

\* the catch block that also starts the load again
CatchAndRetry ==
    /\ errorLogs' = errorLogs + 1
    /\ alerts' = alerts + 1
    /\ fetches' = fetches + 1
    /\ pc' = "awaitFetch"

\* lines 19-22: the catch block, after which the handler ends
Catch ==
    /\ errorLogs' = errorLogs + 1
    /\ alerts' = alerts + 1
    /\ fetches' = fetches
    /\ pc' = "done"

\* the handler calling fetch without awaiting it: it goes on to the populators
DOMContentLoadedNoAwait ==
    /\ pc = "start"
    /\ fetches' = fetches + 1
    /\ pc' = "populateFolkardView"
    /\ UNCHANGED <<response, analysisData, dom, nav, errorLogs, alerts, dataWrites,
                   loadResult>>

\* line 7 and the call of fetch of line 9: the handler suspends
DOMContentLoaded ==
    /\ pc = "start"
    /\ fetches' = fetches + 1
    /\ pc' = "awaitFetch"
    /\ UNCHANGED <<response, analysisData, dom, nav, errorLogs, alerts, dataWrites,
                   loadResult>>

\* line 9 resumes with a response, line 10 calls response.json() and suspends
FetchResolves ==
    /\ pc = "awaitFetch"
    /\ \E body \in Bodies : response' = body
    /\ pc' = "awaitJson"
    /\ UNCHANGED <<analysisData, dom, nav, fetches, errorLogs, alerts, dataWrites,
                   loadResult>>

\* line 9: the promise of fetch rejects (no network, say)
FetchRejects ==
    /\ pc = "awaitFetch"
    /\ loadResult' = "fetchRejected"
    /\ Catch
    /\ UNCHANGED <<response, analysisData, dom, nav, dataWrites>>

\* line 10: the promise of response.json() rejects
JsonRejects ==
    /\ pc = "awaitJson"
    /\ response = Unparseable
    /\ loadResult' = "parseRejected"
    /\ Catch
    /\ UNCHANGED <<response, analysisData, dom, nav, dataWrites>>

\* lines 10-11: the parsed body is stored
JsonResolves ==
    /\ pc = "awaitJson"
    /\ response # Unparseable
    /\ analysisData' = response
    /\ dataWrites' = dataWrites + 1
    /\ loadResult' = "stored"
    /\ pc' = "populateFolkardView"
    /\ UNCHANGED <<response, dom, nav, fetches, errorLogs, alerts>>

\* a populator call of lines 14-16: its statements run; a throw is caught at line 19
Populate(statements, next) ==
    LET page == Run(Page, statements)
    IN  /\ textContent' = page.text
        /\ styleWidth' = page.width
        /\ children' = page.children
        /\ writes' = page.writes
        /\ renders' = page.renders
        /\ firstRender' = page.firstRender
        /\ IF page.threw THEN Catch
           ELSE pc' = next /\ UNCHANGED <<fetches, errorLogs, alerts>>
        /\ UNCHANGED <<response, nav, dataWrites, loadResult>>

\* line 14
PopulateFolkardView ==
    /\ pc = "populateFolkardView"
    /\ Populate(FolkardStatements(analysisData), "populateShakespeareView")
    /\ UNCHANGED analysisData

\* line 15
PopulateShakespeareView ==
    /\ pc = "populateShakespeareView"
    /\ Populate(ShakespeareStatements(analysisData), "populateComparisonView")
    /\ UNCHANGED analysisData

\* the comparison view taking its entries with splice, which removes them from
\* the document
PopulateComparisonViewSplicing ==
    /\ pc = "populateComparisonView"
    /\ Populate(ComparisonStatements(analysisData), "setupNavigation")
    /\ analysisData' =
          IF Has(analysisData, "comparison")
                /\ Has(analysisData.comparison, "top_shared_words")
          THEN [analysisData EXCEPT !.comparison.top_shared_words =
                    SubSeq(@, Min(TopN, Len(@)) + 1, Len(@))]
          ELSE analysisData

\* line 16
PopulateComparisonView ==
    /\ pc = "populateComparisonView"
    /\ Populate(ComparisonStatements(analysisData), "setupNavigation")
    /\ UNCHANGED analysisData

\* line 17 (lines 26-43): the listeners are attached and the handler ends
SetupNavigation ==
    /\ pc = "setupNavigation"
    /\ listeners' = TRUE
    /\ pc' = "done"
    /\ UNCHANGED <<response, analysisData, dom, active, shown, viewName, lastClick,
                   fetches, errorLogs, alerts, dataWrites, loadResult>>

(***************************************************************************)
(* Navigation.                                                             *)
(***************************************************************************)
\* the listener leaving the other views as they are
ClickListenerNoHide(v) ==
    /\ viewName' = v
    /\ active' = {v}
    /\ shown' = shown \cup {v}

\* lines 32-40: the listener of the button whose data-view is v
ClickListener(v) ==
    /\ viewName' = v
    /\ active' = (active \ Views) \cup {v}
    /\ shown' = (shown \ Views) \cup {v}

\* the handler is suspended at an await or has ended: events are dispatched
Idle == pc \in {"awaitFetch", "awaitJson", "done"}

\* the user clicks the button of view v
Click(v) ==
    /\ Idle
    /\ lastClick' = [view |-> v, at |-> pc]
    /\ IF listeners THEN ClickListener(v)
       ELSE UNCHANGED <<active, shown, viewName>>
    /\ UNCHANGED <<pc, response, analysisData, dom, listeners, fetches, errorLogs,
                   alerts, dataWrites, loadResult>>

Next ==
    \/ DOMContentLoaded
    \/ FetchResolves
    \/ FetchRejects
    \/ JsonRejects
    \/ JsonResolves
    \/ PopulateFolkardView
    \/ PopulateShakespeareView
    \/ PopulateComparisonView
    \/ SetupNavigation
    \/ \E v \in Views : Click(v)

Spec == Init /\ [][Next]_vars

(***************************************************************************)
(* The chart renderer on its own: createVennDiagram called again and again *)
(* on the same container with the same comparison.                         *)
(***************************************************************************)
ChartCounts == {0, 999, 1000, 1234567}

ChartInputs ==
    {ComparisonStats(33330, s, f, k, <<>>) :
        s \in ChartCounts, f \in ChartCounts, k \in ChartCounts}

InitChart ==
    /\ pc = "chart"
    /\ response = Null
    /\ \E c \in ChartInputs : analysisData = Document(<<>>, c)
    /\ textContent = [s \in TextSlots |-> <<>>]
    /\ styleWidth = [s \in BarSlots |-> <<>>]
    /\ children = [c \in Containers |-> <<>>]
    /\ writes = [s \in AllSlots |-> 0]
    /\ listeners = FALSE
    /\ \E v \in Views : DefaultLayout(v)
    /\ viewName = None
    /\ lastClick = [view |-> None, at |-> "start"]
    /\ fetches = 0 /\ errorLogs = 0 /\ alerts = 0 /\ dataWrites = 0
    /\ loadResult = "stored"
    /\ renders = 0
    /\ firstRender = <<>>

\* createVennDiagram(analysisData.comparison)
RenderChart ==
    /\ pc = "chart"
    /\ renders < MaxRenders
    /\ LET page == Execute(Page, Statement(FALSE, "chart", ChartContainer,
                                           analysisData.comparison))
       IN  /\ children' = page.children
           /\ writes' = page.writes
           /\ renders' = page.renders
           /\ firstRender' = page.firstRender
    /\ UNCHANGED <<pc, response, analysisData, textContent, styleWidth, nav, fetches,
                   errorLogs, alerts, dataWrites, loadResult>>

NextChart == RenderChart

SpecChart == InitChart /\ [][NextChart]_vars

(***************************************************************************)
(* Properties.                                                             *)
(***************************************************************************)
Written == {s \in AllSlots : writes[s] > 0}
LoadFailed == loadResult \in {"fetchRejected", "parseRejected"}
InPopulator ==
    pc \in {"populateFolkardView", "populateShakespeareView", "populateComparisonView"}
ChartElements == children[ChartContainer][1].elements

\* C1: whenever initialization ends in the error path (the alert was raised),
\* no display slot and no container of any view has been written.
NoPartialDataOnLoadFailure ==
    alerts > 0 =>
        /\ Written = {}
        /\ \A s \in TextSlots : textContent[s] = <<>>
        /\ \A s \in BarSlots : styleWidth[s] = <<>>
        /\ \A c \in Containers : children[c] = <<>>

\* C2: when the fetch rejects or the body cannot be parsed, the handler has
\* ended with exactly one console.error, exactly one alert, and exactly one
\* fetch issued (no retry), and it stays so.
FailureReportedOnceNoRetry ==
    /\ fetches <= 1
    /\ LoadFailed => pc = "done" /\ errorLogs = 1 /\ alerts = 1 /\ fetches = 1

FailureReportedOnceNoRetryWitness ==
    /\ loadResult = "parseRejected" /\ pc = "done" /\ alerts = 1
    /\ lastClick.at = "done"

\* C3: a populator is running or has written a slot only if the fetch and the
\* parse both completed and the parsed body was stored in analysisData; never
\* while the load is pending, never when it failed.
PopulatorsOnlyAfterLoad ==
    (InPopulator \/ Written # {} \/ renders > 0) =>
        /\ loadResult = "stored"
        /\ dataWrites = 1
        /\ fetches = 1
        /\ analysisData = response
        /\ response # Unparseable

PopulatorsOnlyAfterLoadWitness ==
    pc = "populateComparisonView" /\ Written # {} /\ loadResult = "stored"

\* C4: analysisData is assigned at most once, exactly once when the load has
\* completed, by the step that ends the await of response.json(); no other
\* step (populator, renderer, click) changes its value.
AnalysisDataWrittenOnce ==
    [][ /\ dataWrites' <= 1
        /\ (loadResult' = "stored") <=> (dataWrites' = 1)
        /\ (analysisData' # analysisData \/ dataWrites' # dataWrites) =>
              /\ pc = "awaitJson"
              /\ dataWrites = 0 /\ dataWrites' = 1
              /\ analysisData' = response ]_vars

AnalysisDataWrittenOnceWitness ==
    /\ dataWrites = 1 /\ pc = "done" /\ listeners
    /\ lastClick.at = "done"
    /\ Len(analysisData.comparison.top_shared_words) > TopN
    /\ writes["shared-words"] = 1

\* C5: once the listener of a view V has run, the selector of V is the only
\* active selector and the container of V the only one shown; the active
\* selector and the visible view always name the same view.
SelectedViewOnlyActiveAndShown ==
    /\ viewName # None => active = {viewName} /\ shown = {viewName}
    /\ active = shown
    /\ Cardinality(shown) = 1

SelectedViewOnlyActiveAndShownWitness ==
    /\ viewName = "comparison" /\ shown = {"comparison"}
    /\ lastClick.view = "comparison"

\* C6: a click on the button of view V, after the handler has ended, makes V
\* the visible view and its selector active, whatever the outcome of the load.
ClickSelectsWhateverTheLoad ==
    lastClick.at = "done" =>
        active = {lastClick.view} /\ shown = {lastClick.view}

\* C7: after any number of calls of createVennDiagram with the same input the
\* chart container holds what it held after the first call: one svg with two
\* circles and six text elements.
VennDiagramIdempotent ==
    renders >= 1 =>
        /\ children[ChartContainer] = firstRender
        /\ Len(children[ChartContainer]) = 1
        /\ children[ChartContainer][1].tag = "svg"
        /\ Len(ChartElements) = 8
        /\ Cardinality({i \in 1..Len(ChartElements) :
                            ChartElements[i].tag = "circle"}) = 2
        /\ Cardinality({i \in 1..Len(ChartElements) :
                            ChartElements[i].tag = "text"}) = 6

VennDiagramIdempotentWitness ==
    renders >= 2 /\ Len(children[ChartContainer]) = 1

\* the i-th child of a word container shows the i-th entry of the list
ShowsEntries(container, list, counts) ==
    /\ Len(children[container]) = (IF Len(list) < 30 THEN Len(list) ELSE 30)
    /\ \A i \in 1..Len(children[container]) :
          /\ children[container][i].word = list[i].word
          /\ children[container][i].count = IntToString(counts[i])
          /\ children[container][i].className = "word-item"

\* C8: a word container that was filled holds exactly min(n, 30) items, the
\* i-th being the i-th entry of its list (top_words of texts[0], of texts[1],
\* top_shared_words), in the given order.
WordListsTruncatedInOrder ==
    /\ writes["folkard-top-words"] > 0 =>
          LET l == analysisData.texts[1].top_words
          IN ShowsEntries("folkard-top-words", l, [i \in 1..Len(l) |-> l[i].count])
    /\ writes["shakespeare-top-words"] > 0 =>
          LET l == analysisData.texts[2].top_words
          IN ShowsEntries("shakespeare-top-words", l, [i \in 1..Len(l) |-> l[i].count])
    /\ writes["shared-words"] > 0 =>
          LET l == analysisData.comparison.top_shared_words
          IN ShowsEntries("shared-words", l, [i \in 1..Len(l) |-> l[i].combined_count])

WordListsTruncatedInOrderWitness ==
    /\ writes["shared-words"] > 0
    /\ Len(analysisData.texts[1].top_words) > 30
    /\ Len(children["folkard-top-words"]) = 30
    /\ Len(analysisData.texts[2].top_words) = 2
    /\ Len(children["shakespeare-top-words"]) = 2
    /\ Len(analysisData.comparison.top_shared_words) = 30

\* C9: given a well-formed document, when the handler has ended every slot of
\* the three views has been written by exactly one statement, and the
\* handler ended without reaching the catch block.
EverySlotWrittenOnce ==
    (pc = "done" /\ loadResult = "stored" /\ WellFormed(analysisData)) =>
        /\ \A s \in AllSlots : writes[s] = 1
        /\ renders = 1
        /\ alerts = 0 /\ listeners

EverySlotWrittenOnceWitness ==
    /\ pc = "done" /\ loadResult = "stored" /\ WellFormed(analysisData)
    /\ Len(analysisData.texts[1].top_words) = 0
    /\ writes["shakespeare-sent-neu"] = 1

\* C10 as stated: each circle's count is at the centre of its circle.
CountsAtCircleCentres ==
    renders >= 1 =>
        /\ ChartElements[5].x = ChartElements[1].x
        /\ ChartElements[5].y = ChartElements[1].y
        /\ ChartElements[6].x = ChartElements[2].x
        /\ ChartElements[6].y = ChartElements[2].y

\* C10: the circles are centred at (width/2 - 80, height/2) and
\* (width/2 + 80, height/2) with radius 120; each count is at the height of
\* its circle's centre and 70 to the outer side of it: the count of
\* unique_to_folkard at (cx - 70, cy) of the left circle, the count of
\* unique_to_shakespeare at (cx + 70, cy) of the right circle.
CountsBesideCircleCentres ==
    renders >= 1 =>
        /\ ChartElements[1].tag = "circle" /\ ChartElements[2].tag = "circle"
        /\ ChartElements[1].x = 600 \div 2 - 80 /\ ChartElements[1].y = 400 \div 2
        /\ ChartElements[2].x = 600 \div 2 + 80 /\ ChartElements[2].y = 400 \div 2
        /\ ChartElements[1].r = 120 /\ ChartElements[2].r = 120
        /\ ChartElements[5].text = ToLocaleString(analysisData.comparison.unique_to_folkard)
        /\ ChartElements[5].x = ChartElements[1].x - 70
        /\ ChartElements[5].y = ChartElements[1].y
        /\ ChartElements[6].text =
              ToLocaleString(analysisData.comparison.unique_to_shakespeare)
        /\ ChartElements[6].x = ChartElements[2].x + 70
        /\ ChartElements[6].y = ChartElements[2].y

CountsBesideCircleCentresWitness ==
    /\ renders >= 1
    /\ analysisData.comparison.unique_to_folkard = 1234567
    /\ analysisData.comparison.unique_to_shakespeare = 999

====
